---- MODULE Spec2Model ----
(***************************************************************************)
(* SGX remote attestation: the three do_attestation procedures            *)
(*   ra-enclave/src/context.rs  EnclaveRaContext                          *)
(*   ra-client/src/context.rs   ClientRaContext                           *)
(*   ra-sp/src/context.rs       SpRaContext                               *)
(* run concurrently over enclave_stream (Enclave <-> Client) and sp_stream *)
(* (Client <-> SP).  Cryptography is symbolic: a key, a signature, a MAC   *)
(* tag and a digest are terms, equal exactly when built from equal parts.  *)
(* The Client is the untrusted relay: at the three places where it writes  *)
(* a protocol message to a peer it may write another message built from    *)
(* what it knows.                                                          *)
(***************************************************************************)
EXTENDS Integers, Sequences, FiniteSets, TLC

VARIABLES
    cfg,        \* what init() loaded: SpConfig (and the trust options as given in
                \* the config file), SIGSTRUCT, build, the platform's enclave
    encl,       \* EnclaveRaContext and the position of its do_attestation
    client,     \* ClientRaContext and the position of its do_attestation
    sp,         \* SpRaContext and the position of its do_attestation
    e2c,        \* enclave_stream, Enclave -> Client
    c2e,        \* enclave_stream, Client -> Enclave
    c2s,        \* sp_stream, Client -> SP
    s2c,        \* sp_stream, SP -> Client
    closed,     \* the streams that have been closed
    tampered,   \* the messages the Client has altered or substituted
    ias,        \* the calls IAS has answered, in order
    aesm,       \* the calls AESM has answered, in order
    wire        \* history: everything written so far, per stream and direction

vars == <<cfg, encl, client, sp, e2c, c2e, c2s, s2c, closed, tampered, ias, aesm, wire>>

----------------------------------------------------------------------------
\* Bounds of the model.

\* How many of MSG1, MSG2, the quote and MSG3 the Client may alter in one session.
MaxTamper == 2

\* How many streams may be closed under the parties in one session.
MaxClosed == 1

----------------------------------------------------------------------------
\* Option<T>: None is the empty sequence, Some(x) the sequence holding x.

None == << >>

Some(x) == <<x>>

IsSome(o) == o # << >>

Unwrap(o) == o[1]

----------------------------------------------------------------------------
\* Symbolic cryptography (sgx_crypto, ra_common).

\* Private scalars: the Enclave's, the SP's, the Client's own, and the pair of
\* an earlier session between the same SP key and another Enclave context.
EnclavePriv == "a"

SpPriv == "b"

ClientPriv == "c"

OldEnclavePriv == "a0"

OldSpPriv == "b0"

PrivKeys == {EnclavePriv, SpPriv, ClientPriv, OldEnclavePriv, OldSpPriv}

\* OneWayAuthenticatedDHKE::get_public_key: the point of a private scalar.
PublicKey(priv) == [pub |-> priv]

\* 64 bytes that are not the encoding of a point of the curve.
BadPoint == [pub |-> "invalid"]

ValidPoint(p) == p.pub \in PrivKeys

\* The shared secret b*g_a = a*g_b, passed through CMAC with the zero key (KDK).
DeriveKdk(priv, peer) == {priv, peer.pub}

\* The SP's long-term signing key and the key the Client can sign with.
SpSigningKey == "sp_key"

ClientSigningKey == "client_key"

\* ECDSA over g_b || g_a.
EcdsaSign(key, g_b, g_a) == [signer |-> key, g_b |-> g_b, g_a |-> g_a]

EcdsaVerify(sig, vkey, g_b, g_a) == sig = EcdsaSign(vkey, g_b, g_a)

\* derive_secret_keys: CMAC(KDK, 0x01 || label || 0x00 0x80 0x00), label SMK, SK, MK, VK.
Subkey(kdk, label) == [label |-> label, kdk |-> kdk]

derive_secret_keys(kdk) ==
    <<Subkey(kdk, "SMK"), Subkey(kdk, "SK"), Subkey(kdk, "MK"), Subkey(kdk, "VK")>>

\* AES-128-CMAC of data under key.
CmacSign(key, data) == [key |-> key, data |-> data]

\* 16 bytes that are the tag of nothing.
JunkMac == [key |-> Subkey({}, "none"), data |-> << >>]

\* SHA-256(g_a || g_b || vk).
VerificationDigest(g_a, g_b, vk) == [g_a |-> g_a, g_b |-> g_b, vk |-> vk]

\* A digest that is the hash of no transcript.
JunkDigest == [g_a |-> BadPoint, g_b |-> BadPoint, vk |-> Subkey({}, "none")]

\* sign_and_derive (signer side): Err on a peer key that is no point.
sign_and_derive(priv, g_a, sp_private_key) ==
    IF ValidPoint(g_a)
    THEN [ok |-> TRUE, kdk |-> DeriveKdk(priv, g_a),
          sign_gb_ga |-> EcdsaSign(sp_private_key, PublicKey(priv), g_a)]
    ELSE [ok |-> FALSE, kdk |-> {}, sign_gb_ga |-> EcdsaSign("none", BadPoint, BadPoint)]

\* verify_and_derive (verifier side): the signature is checked over g_b || own g_a
\* before the KDK is derived.
verify_and_derive(priv, g_b, sign_gb_ga, sp_vkey) ==
    IF ~ValidPoint(g_b) THEN [ok |-> FALSE, err |-> "CryptoError", kdk |-> {}]
    ELSE IF ~EcdsaVerify(sign_gb_ga, sp_vkey, g_b, PublicKey(priv))
    THEN [ok |-> FALSE, err |-> "SignatureInvalid", kdk |-> {}]
    ELSE [ok |-> TRUE, err |-> "", kdk |-> DeriveKdk(priv, g_b)]

----------------------------------------------------------------------------
\* Protocol messages (ra_common::msg).

\* The bytes MSG2's tag covers: g_b, spid, quote_type, kdf_id, sign_gb_ga, sig_rl.
Msg2MacData(m) ==
    <<"MSG2", m.g_b, m.spid, m.quote_type, m.kdf_id, m.sign_gb_ga, m.sig_rl>>

\* RaMsg2::new: kdf_id is 1, the tag is computed under SMK.
RaMsg2New(smk, g_b, spid, quote_type, sign_gb_ga, sig_rl) ==
    LET m == [g_b |-> g_b, spid |-> spid, quote_type |-> quote_type, kdf_id |-> 1,
              sign_gb_ga |-> sign_gb_ga, mac |-> JunkMac, sig_rl |-> sig_rl]
    IN  [m EXCEPT !.mac = CmacSign(smk, Msg2MacData(m))]

Msg2VerifyMac(m, smk) == m.mac = CmacSign(smk, Msg2MacData(m))

\* The bytes MSG3's tag covers: ps_sec_prop and the quote.
Msg3MacData(m) == <<"MSG3", m.ps_sec_prop, m.quote>>

\* Mutant of RaMsg3New: the mac field carries SMK itself.
RaMsg3New_LeaksSmk(smk, ps_sec_prop, quote) ==
    [mac |-> smk, ps_sec_prop |-> ps_sec_prop, quote |-> quote]

RaMsg3New(smk, ps_sec_prop, quote) ==
    LET m == [mac |-> JunkMac, ps_sec_prop |-> ps_sec_prop, quote |-> quote]
    IN  [m EXCEPT !.mac = CmacSign(smk, Msg3MacData(m))]

Msg3VerifyMac(m, smk) == m.mac = CmacSign(smk, Msg3MacData(m))

----------------------------------------------------------------------------
\* SpConfig, SIGSTRUCT and the platform.

\* The byte order of the status strings, the order Vec::sort and binary_search use.
StatusRank(s) ==
    CASE s = "CONFIGURATION_NEEDED" -> 1
      [] s = "GROUP_OUT_OF_DATE" -> 2
      [] s = "OK" -> 3
      [] s = "OUT_OF_DATE" -> 4
      [] s = "REVOKED" -> 5
      [] s = "SIGNATURE_INVALID" -> 6

RECURSIVE InsertSorted(_, _)
InsertSorted(x, seq) ==
    IF seq = << >> THEN <<x>>
    ELSE IF StatusRank(x) < StatusRank(Head(seq)) THEN <<x>> \o seq
    ELSE <<Head(seq)>> \o InsertSorted(x, Tail(seq))

\* Vec::sort (stable): equal elements keep their order.
RECURSIVE SortOptions(_)
SortOptions(seq) ==
    IF seq = << >> THEN << >>
    ELSE InsertSorted(seq[Len(seq)], SortOptions(SubSeq(seq, 1, Len(seq) - 1)))

\* slice::binary_search(x).is_ok() on seq[lo..hi].
RECURSIVE BinarySearchFrom(_, _, _, _)
BinarySearchFrom(seq, lo, hi, x) ==
    IF lo > hi THEN FALSE
    ELSE LET mid == (lo + hi) \div 2
         IN  IF seq[mid] = x THEN TRUE
             ELSE IF StatusRank(seq[mid]) < StatusRank(x)
             THEN BinarySearchFrom(seq, mid + 1, hi, x)
             ELSE BinarySearchFrom(seq, lo, mid - 1, x)

binary_search(seq, x) == BinarySearchFrom(seq, 1, Len(seq), x)

\* The identity the SIGSTRUCT file declares: enclavehash, SHA-256(modulus),
\* isvprodid, isvsvn and the DEBUG bit of attributes.flags.
Identity(mrenclave, mrsigner, isvprodid, isvsvn, debug) ==
    [mrenclave |-> mrenclave, mrsigner |-> mrsigner, isvprodid |-> isvprodid,
     isvsvn |-> isvsvn, debug |-> debug]

\* The enclaves the platform may be running: the one the SIGSTRUCT describes, the
\* same built in debug mode, or one that differs in one identity field.
EnclaveIdentities ==
    { Identity("mre", "mrs", 1, 1, FALSE), Identity("mre", "mrs", 1, 1, TRUE),
      Identity("mre_other", "mrs", 1, 1, FALSE), Identity("mre", "mrs_other", 1, 1, FALSE),
      Identity("mre", "mrs", 2, 1, FALSE), Identity("mre", "mrs", 1, 2, FALSE) }

\* quote_trust_options as written in the config file, before init sorts it.
QuoteTrustOptionInputs ==
    { << >>, <<"GROUP_OUT_OF_DATE">>, <<"GROUP_OUT_OF_DATE", "CONFIGURATION_NEEDED">> }

\* pse_trust_options as written in the config file: absent or a list.
PseTrustOptionInputs == { None, Some(<< >>), Some(<<"OUT_OF_DATE">>) }

\* Mutant of SpInitConfig: the trust-option lists are left as given.
SpInitConfig_Unsorted(qto, pto, sigstruct_debug, release) ==
    [quote_trust_options |-> qto, pse_trust_options |-> pto,
     spid |-> "spid", linkable |-> TRUE,
     sigstruct |-> Identity("mre", "mrs", 1, 1, sigstruct_debug),
     release |-> release]

\* SpRaContext::init: the trust-option lists are sorted for binary search.
SpInitConfig(qto, pto, sigstruct_debug, release) ==
    [quote_trust_options |-> SortOptions(qto),
     pse_trust_options |-> IF IsSome(pto) THEN Some(SortOptions(Unwrap(pto))) ELSE None,
     spid |-> "spid", linkable |-> TRUE,
     sigstruct |-> Identity("mre", "mrs", 1, 1, sigstruct_debug),
     release |-> release]

\* Report::for_target: the hardware fills in the identity of the enclave that runs.
ReportForTarget(identity, target_info, report_data) ==
    [identity |-> identity, target |-> target_info, report_data |-> report_data]

\* AESM get_quote: the QE copies the report body into the quote.
\* quote[112..144) MRENCLAVE, [176..208) MRSIGNER, [304..306) ISVPRODID,
\* [306..308) ISVSVN, [96..112) ATTRIBUTES, [368..400) REPORTDATA; the EPID
\* signature of the QE covers them all.
QuoteOf(report, spid) ==
    [mrenclave |-> report.identity.mrenclave, mrsigner |-> report.identity.mrsigner,
     isvprodid |-> report.identity.isvprodid, isvsvn |-> report.identity.isvsvn,
     debug |-> report.identity.debug, report_data |-> report.report_data, spid |-> spid,
     epid_signed |-> TRUE]

\* A quote whose body was changed after the QE signed it.
Unsigned(quote) == [quote EXCEPT !.epid_signed = FALSE]

\* What IAS may answer to verify_attestation_evidence.
QuoteStatuses == {"OK", "GROUP_OUT_OF_DATE", "CONFIGURATION_NEEDED", "REVOKED"}

PseStatuses == {None, Some("OK"), Some("OUT_OF_DATE")}

IasReports ==
    [ok : {TRUE}, isv_enclave_quote_status : QuoteStatuses,
     pse_manifest_status : PseStatuses, epid_pseudonym : {Some("pseudonym")}]

IasFailure ==
    [ok |-> FALSE, isv_enclave_quote_status |-> "", pse_manifest_status |-> None,
     epid_pseudonym |-> None]

IasResponses == IasReports \cup {IasFailure}

\* IAS verifies the EPID signature: a quote the QE did not sign as it stands gets
\* no status but SIGNATURE_INVALID.
IasResponsesFor(quote) ==
    IF quote.epid_signed THEN IasResponses
    ELSE { IasFailure,
           [ok |-> TRUE, isv_enclave_quote_status |-> "SIGNATURE_INVALID",
            pse_manifest_status |-> None, epid_pseudonym |-> None] }

\* What IAS may answer to get_sig_rl: a failure, an empty list, a list.
SigRlResponses ==
    { [ok |-> FALSE, sig_rl |-> None], [ok |-> TRUE, sig_rl |-> None],
      [ok |-> TRUE, sig_rl |-> Some("sig_rl")] }

----------------------------------------------------------------------------
\* The value a do_attestation ends with: Ok(value), Err(err), or a panic
\* (an unwrap of Err or None) whose payload is err.

Result(kind, err, value) == [kind |-> kind, err |-> err, value |-> value]

Running == Result("Running", "", None)

Ok(value) == Result("Ok", "", Some(value))

Err(err) == Result("Err", err, None)

Panic(err) == Result("Panic", err, None)

\* A message on a stream: what it is and its content.
Msg(type, body) == [type |-> type, body |-> body]

StreamDown(s) == s \in closed

----------------------------------------------------------------------------
\* SpRaContext (ra-sp/src/context.rs).

\* Mutant of process_msg_1: the keypair is read with as_ref() and left in place.
process_msg_1_KeepsKeypair(ctx, config, msg1, sig_rl_resp) ==
    LET b == Unwrap(ctx.key_exchange)
        g_b == PublicKey(b)
        sd == sign_and_derive(b, msg1.g_a, ctx.sp_private_key)
        keys == derive_secret_keys(sd.kdk)
        set == [ctx EXCEPT !.smk = Some(keys[1]),
                           !.sk_mk = Some(<<keys[2], keys[3]>>),
                           !.verification_digest =
                               Some(VerificationDigest(msg1.g_a, g_b, keys[4]))]
    IN  IF ~sd.ok THEN [res |-> Panic("CryptoError"), ctx |-> ctx]
        ELSE IF ~sig_rl_resp.ok THEN [res |-> Err("IasError"), ctx |-> set]
        ELSE [res |-> Ok(RaMsg2New(keys[1], g_b, config.spid,
                                   IF config.linkable THEN 1 ELSE 0,
                                   sd.sign_gb_ga, sig_rl_resp.sig_rl)),
              ctx |-> set]

\* process_msg_1: the keypair is taken, the session state is set, and only then
\* is the sig_rl awaited.
process_msg_1(ctx, config, msg1, sig_rl_resp) ==
    IF ~IsSome(ctx.key_exchange) THEN [res |-> Panic("NoneUnwrap"), ctx |-> ctx]
    ELSE
    LET b == Unwrap(ctx.key_exchange)
        g_b == PublicKey(b)
        taken == [ctx EXCEPT !.key_exchange = None]
        sd == sign_and_derive(b, msg1.g_a, ctx.sp_private_key)
        keys == derive_secret_keys(sd.kdk)
        set == [taken EXCEPT !.smk = Some(keys[1]),
                             !.sk_mk = Some(<<keys[2], keys[3]>>),
                             !.verification_digest =
                                 Some(VerificationDigest(msg1.g_a, g_b, keys[4]))]
    IN  IF ~sd.ok THEN [res |-> Panic("CryptoError"), ctx |-> taken]
        ELSE IF ~sig_rl_resp.ok THEN [res |-> Err("IasError"), ctx |-> set]
        ELSE [res |-> Ok(RaMsg2New(keys[1], g_b, config.spid,
                                   IF config.linkable THEN 1 ELSE 0,
                                   sd.sign_gb_ga, sig_rl_resp.sig_rl)),
              ctx |-> set]

\* Mutant of Msg3IntegrityOk: the tag of MSG3 is not verified.
Msg3IntegrityOk_NoMac(ctx, msg3) ==
    Unwrap(ctx.verification_digest) = msg3.quote.report_data

\* Mutant of Msg3IntegrityOk: quote[368..400) is not compared with the digest.
Msg3IntegrityOk_NoDigest(ctx, msg3) == Msg3VerifyMac(msg3, Unwrap(ctx.smk))

\* process_msg_3, checks 1 and 2: the MSG3 tag under SMK, then quote[368..400) = vd.
Msg3IntegrityOk(ctx, msg3) ==
    /\ Msg3VerifyMac(msg3, Unwrap(ctx.smk))
    /\ Unwrap(ctx.verification_digest) = msg3.quote.report_data

\* Mutant of SigstructMatches: ISVSVN is not compared.
SigstructMatches_NoIsvSvn(quote, sigstruct) ==
    /\ quote.mrenclave = sigstruct.mrenclave
    /\ quote.mrsigner = sigstruct.mrsigner
    /\ quote.isvprodid = sigstruct.isvprodid

\* process_msg_3, check 4: the quote's identity against the SIGSTRUCT.
SigstructMatches(quote, sigstruct) ==
    /\ quote.mrenclave = sigstruct.mrenclave
    /\ quote.mrsigner = sigstruct.mrsigner
    /\ quote.isvprodid = sigstruct.isvprodid
    /\ quote.isvsvn = sigstruct.isvsvn

\* process_msg_3, check 5: in a release build, the DEBUG bit of
\* self.sigstruct.attributes.flags.
DebugModeRejected(config, quote) == config.release /\ config.sigstruct.debug

\* process_msg_3, the trust decision on the quote status.
IsEnclaveTrusted(config, quote_status) ==
    quote_status = "OK" \/ binary_search(config.quote_trust_options, quote_status)

\* The closure of pse_manifest_status.map unwraps pse_trust_options unless the
\* status is "OK".
PseDecisionPanics(config, pse_status) ==
    IsSome(pse_status) /\ Unwrap(pse_status) # "OK" /\ ~IsSome(config.pse_trust_options)

IsPseManifestTrusted(config, pse_status) ==
    IF ~IsSome(pse_status) THEN None
    ELSE Some(Unwrap(pse_status) = "OK"
              \/ binary_search(Unwrap(config.pse_trust_options), Unwrap(pse_status)))

RaMsg4(is_enclave_trusted, is_pse_manifest_trusted) ==
    [is_enclave_trusted |-> is_enclave_trusted,
     is_pse_manifest_trusted |-> is_pse_manifest_trusted, pib |-> None]

\* Mutant of process_msg_3: the SIGSTRUCT identity is compared before IAS's answer
\* is looked at.
process_msg_3_IdentityFirst(ctx, config, msg3, resp) ==
    IF ~Msg3IntegrityOk(ctx, msg3) THEN Err("IntegrityError")
    ELSE IF ~SigstructMatches(msg3.quote, config.sigstruct) THEN Err("SigstructMismatched")
    ELSE IF ~resp.ok THEN Err("IasError")
    ELSE IF DebugModeRejected(config, msg3.quote) THEN Err("EnclaveInDebugMode")
    ELSE IF PseDecisionPanics(config, resp.pse_manifest_status) THEN Panic("NoneUnwrap")
    ELSE Ok([msg4 |-> RaMsg4(IsEnclaveTrusted(config, resp.isv_enclave_quote_status),
                             IsPseManifestTrusted(config, resp.pse_manifest_status)),
             epid_pseudonym |-> resp.epid_pseudonym])

\* process_msg_3 as a whole; resp is IAS's answer, read only when checks 1 and 2 passed.
process_msg_3(ctx, config, msg3, resp) ==
    IF ~Msg3IntegrityOk(ctx, msg3) THEN Err("IntegrityError")
    ELSE IF ~resp.ok THEN Err("IasError")
    ELSE IF ~SigstructMatches(msg3.quote, config.sigstruct) THEN Err("SigstructMismatched")
    ELSE IF DebugModeRejected(config, msg3.quote) THEN Err("EnclaveInDebugMode")
    ELSE IF PseDecisionPanics(config, resp.pse_manifest_status) THEN Panic("NoneUnwrap")
    ELSE Ok([msg4 |-> RaMsg4(IsEnclaveTrusted(config, resp.isv_enclave_quote_status),
                             IsPseManifestTrusted(config, resp.pse_manifest_status)),
             epid_pseudonym |-> resp.epid_pseudonym])

\* Mutant of AttestationResult: the pair is destructured in the wrong order.
AttestationResult_Swapped(epid_pseudonym, sk_mk) ==
    [epid_pseudonym |-> epid_pseudonym, signing_key |-> sk_mk[2], master_key |-> sk_mk[1]]

\* SpRaContext::do_attestation after MSG4 is written: the verdict, then sk_mk.take().
AttestationResult(epid_pseudonym, sk_mk) ==
    [epid_pseudonym |-> epid_pseudonym, signing_key |-> sk_mk[1], master_key |-> sk_mk[2]]

SpVerdict(ctx, msg4, epid_pseudonym) ==
    IF ~msg4.is_enclave_trusted THEN Err("EnclaveNotTrusted")
    ELSE IF msg4.is_pse_manifest_trusted = Some(FALSE) THEN Err("EnclaveNotTrusted")
    ELSE Ok(AttestationResult(epid_pseudonym, Unwrap(ctx.sk_mk)))

----------------------------------------------------------------------------
\* EnclaveRaContext (ra-enclave/src/context.rs).

\* process_msg_2, line 50: key_exchange.as_ref().unwrap().get_public_key().
EnclaveGetPublicKey(ctx) ==
    IF IsSome(ctx.key_exchange) THEN Ok(PublicKey(Unwrap(ctx.key_exchange)))
    ELSE Panic("NoneUnwrap")

\* Mutant of EnclaveCheckMsg2: the KDK is derived without verifying sign_gb_ga.
EnclaveCheckMsg2_NoSignature(priv, sp_vkey, msg2) ==
    LET keys == derive_secret_keys(DeriveKdk(priv, msg2.g_b))
    IN  IF ~ValidPoint(msg2.g_b) THEN Panic("CryptoError")
        ELSE IF ~Msg2VerifyMac(msg2, keys[1]) THEN Err("IntegrityError")
        ELSE Ok(keys)

\* Mutant of EnclaveCheckMsg2: the tag of MSG2 is not verified.
EnclaveCheckMsg2_NoMac(priv, sp_vkey, msg2) ==
    LET vd == verify_and_derive(priv, msg2.g_b, msg2.sign_gb_ga, sp_vkey)
    IN  IF ~vd.ok THEN Panic(vd.err) ELSE Ok(derive_secret_keys(vd.kdk))

\* process_msg_2 from the keypair's take() to the MAC check of MSG2: the signature
\* is verified and the KDK derived (unwrap), the subkeys derived, the tag verified.
EnclaveCheckMsg2(priv, sp_vkey, msg2) ==
    LET vd == verify_and_derive(priv, msg2.g_b, msg2.sign_gb_ga, sp_vkey)
        keys == derive_secret_keys(vd.kdk)
    IN  IF ~vd.ok THEN Panic(vd.err)
        ELSE IF ~Msg2VerifyMac(msg2, keys[1]) THEN Err("IntegrityError")
        ELSE Ok(keys)

\* local_attestation::verify_local_attest on the QE report.
verify_local_attest(qe_report) == qe_report = "qe_report"

\* Mutant of EnclaveVerdict: the PSE verdict is not looked at.
EnclaveVerdict_IgnoresPse(msg4, sk_mk) ==
    IF ~msg4.is_enclave_trusted THEN Err("EnclaveNotTrusted") ELSE Ok(sk_mk)

\* EnclaveRaContext::do_attestation after MSG4 is read.
EnclaveVerdict(msg4, sk_mk) ==
    IF ~msg4.is_enclave_trusted THEN Err("EnclaveNotTrusted")
    ELSE IF msg4.is_pse_manifest_trusted = Some(FALSE) THEN Err("PseNotTrusted")
    ELSE Ok(sk_mk)

----------------------------------------------------------------------------
\* ClientRaContext (ra-client/src/context.rs).

\* get_msg_1: the gid of the cached QuoteInfo and the g_a read from the Enclave.
RaMsg1(gid, g_a) == [gid |-> gid, g_a |-> g_a]

\* process_msg_2: the MSG3 assembled from the Enclave's tag and AESM's quote.
RaMsg3(mac, quote) == [mac |-> mac, ps_sec_prop |-> None, quote |-> quote]

\* ClientRaContext::do_attestation after MSG4 is forwarded.
ClientVerdict(msg4) ==
    IF ~msg4.is_enclave_trusted THEN Err("EnclaveNotTrusted")
    ELSE IF msg4.is_pse_manifest_trusted = Some(FALSE) THEN Err("PseNotTrusted")
    ELSE Ok("unit")

\* What AESM may answer to init_quote and to get_quote.
AesmInitResponses == {TRUE, FALSE}

AesmQuoteResponses ==
    { [ok |-> FALSE, qe_report |-> ""], [ok |-> TRUE, qe_report |-> "qe_report"],
      [ok |-> TRUE, qe_report |-> "qe_report_forged"] }

----------------------------------------------------------------------------
\* The Client as the untrusted relay: what it can put in place of a message.

\* The SMKs the Client can compute: those of exchanges made with its own scalar.
ClientSmk(peer) == Subkey(DeriveKdk(ClientPriv, peer), "SMK")

\* The MSG2 of an earlier session of the same SP key with another Enclave context.
OldMsg2 ==
    RaMsg2New(Subkey(DeriveKdk(OldSpPriv, PublicKey(OldEnclavePriv)), "SMK"),
              PublicKey(OldSpPriv), "spid", 1,
              EcdsaSign(SpSigningKey, PublicKey(OldSpPriv), PublicKey(OldEnclavePriv)),
              None)

\* The g_a' the Client may put into MSG1 instead of the Enclave's g_a.
SubstituteGas(g_a) ==
    {PublicKey(ClientPriv), PublicKey(OldEnclavePriv), BadPoint} \ {g_a}

\* MSG2 with one field changed.
AlteredMsg2s(m, g_a) ==
    { [m EXCEPT !.g_b = PublicKey(ClientPriv)],
      [m EXCEPT !.g_b = BadPoint],
      [m EXCEPT !.spid = "spid_other"],
      [m EXCEPT !.quote_type = 0],
      [m EXCEPT !.kdf_id = 2],
      [m EXCEPT !.sign_gb_ga = EcdsaSign(ClientSigningKey, m.g_b, g_a)],
      [m EXCEPT !.mac = JunkMac],
      [m EXCEPT !.sig_rl = Some("sig_rl_other")] }

\* MSG2 built by the Client: its own exchange signed with its own key, the SP's
\* signature with a tag under a key the Client knows, and a replay.
ForgedMsg2s(m, g_a) ==
    { RaMsg2New(ClientSmk(g_a), PublicKey(ClientPriv), m.spid, 1,
                EcdsaSign(ClientSigningKey, PublicKey(ClientPriv), g_a), m.sig_rl),
      RaMsg2New(ClientSmk(g_a), PublicKey(ClientPriv), m.spid, 1,
                m.sign_gb_ga, m.sig_rl),
      RaMsg2New(ClientSmk(m.g_b), m.g_b, "spid_other", 1, m.sign_gb_ga, m.sig_rl),
      OldMsg2 }

SubstituteMsg2s(m, g_a) == (AlteredMsg2s(m, g_a) \cup ForgedMsg2s(m, g_a)) \ {m}

\* The verification digest of the earlier session.
OldDigest ==
    VerificationDigest(PublicKey(OldEnclavePriv), PublicKey(OldSpPriv),
                       Subkey(DeriveKdk(OldEnclavePriv, PublicKey(OldSpPriv)), "VK"))

\* QE-signed quotes the Client may hand to the Enclave in place of the quote of its
\* REPORT: the quote of the earlier session of the same enclave, and the quote of
\* an enclave of the Client's own that copied the REPORTDATA it read in the REPORT.
SubstituteQuotes(quote) ==
    { [quote EXCEPT !.report_data = OldDigest],
      [quote EXCEPT !.mrenclave = "mre_client"] } \ {quote}

\* MSG3 with one field changed, or with the tag recomputed under a key the Client knows.
SubstituteMsg3s(m, msg2) ==
    { [m EXCEPT !.mac = JunkMac],
      [m EXCEPT !.mac = msg2.mac],
      [m EXCEPT !.ps_sec_prop = Some("ps_sec_prop")],
      [m EXCEPT !.quote = Unsigned([m.quote EXCEPT !.mrenclave = "mre"])],
      [m EXCEPT !.quote = Unsigned([m.quote EXCEPT !.mrenclave = "mre_other"])],
      [m EXCEPT !.quote = Unsigned([m.quote EXCEPT !.debug = ~m.quote.debug])],
      [m EXCEPT !.quote = Unsigned([m.quote EXCEPT !.report_data = JunkDigest])],
      RaMsg3New(ClientSmk(msg2.g_b), None,
                Unsigned([m.quote EXCEPT !.mrenclave = "mre"])),
      RaMsg3New(ClientSmk(msg2.g_b), None, m.quote) } \ {m}

CanTamper == Cardinality(tampered) < MaxTamper

----------------------------------------------------------------------------
\* The history of the two streams: what a step appended to a queue is appended to
\* the record of that direction (a step never both reads from and writes to the
\* same direction).

Written(q, q2) == IF Len(q2) > Len(q) THEN SubSeq(q2, Len(q) + 1, Len(q2)) ELSE << >>

Record ==
    wire' = [e2c |-> wire.e2c \o Written(e2c, e2c'),
             c2e |-> wire.c2e \o Written(c2e, c2e'),
             c2s |-> wire.c2s \o Written(c2s, c2s'),
             s2c |-> wire.s2c \o Written(s2c, s2c')]

----------------------------------------------------------------------------
\* The state after the three init() calls.

Init ==
    /\ cfg \in { [sp |-> SpInitConfig(qto, pto, sd, rel), enclave |-> id,
                  given |-> [quote_trust_options |-> qto, pse_trust_options |-> pto]] :
                   qto \in QuoteTrustOptionInputs, pto \in PseTrustOptionInputs,
                   sd \in BOOLEAN, rel \in BOOLEAN, id \in EnclaveIdentities }
    /\ encl = [pc |-> "Start", key_exchange |-> Some(EnclavePriv),
               sp_vkey |-> SpSigningKey, msg2 |-> None, keys |-> None,
               verification_digest |-> None, quote |-> None,
               process_msg_2 |-> Running, msg4 |-> None, result |-> Running]
    /\ client = [pc |-> "Start", g_a |-> None, msg1 |-> None, msg2 |-> None,
                 quote |-> None, msg3 |-> None, msg4 |-> None, result |-> Running]
    /\ sp = [pc |-> "ReadMsg0", key_exchange |-> Some(SpPriv),
             sp_private_key |-> SpSigningKey, verification_digest |-> None,
             smk |-> None, sk_mk |-> None, msg1 |-> None, msg2 |-> None,
             msg3 |-> None, msg4 |-> None, result |-> Running]
    /\ e2c = << >> /\ c2e = << >> /\ c2s = << >> /\ s2c = << >>
    /\ closed = {} /\ tampered = {}
    /\ ias = << >> /\ aesm = << >>
    /\ wire = [e2c |-> << >>, c2e |-> << >>, c2s |-> << >>, s2c |-> << >>]

----------------------------------------------------------------------------
\* EnclaveRaContext::do_attestation, one action per blocking read.

EnclaveEnds(e, res) == [e EXCEPT !.pc = "Done", !.result = res]

\* process_msg_2 ends with res; do_attestation unwraps it.
EnclaveMsg2Ends(e, res) ==
    [e EXCEPT !.pc = "Done", !.process_msg_2 = res, !.result = Panic(res.err)]

\* process_msg_2: g_a is written to the Client.
EnclaveSendGa ==
    /\ encl.pc = "Start"
    /\ LET g_a == EnclaveGetPublicKey(encl)
       IN  IF g_a.kind = "Panic"
           THEN /\ encl' = EnclaveMsg2Ends(encl, g_a)
                /\ e2c' = e2c
           ELSE IF StreamDown("enclave_stream")
           THEN /\ encl' = EnclaveMsg2Ends(encl, Panic("IoError"))
                /\ e2c' = e2c
           ELSE /\ encl' = [encl EXCEPT !.pc = "ReadMsg2"]
                /\ e2c' = Append(e2c, Msg("g_a", Unwrap(g_a.value)))
    /\ UNCHANGED <<cfg, client, sp, c2e, c2s, s2c, closed, tampered, ias, aesm>>
    /\ Record

\* process_msg_2: MSG2 is read, the keypair taken, signature and tag verified,
\* the verification digest computed.
EnclaveReadMsg2 ==
    /\ encl.pc = "ReadMsg2"
    /\ StreamDown("enclave_stream") \/ c2e # << >>
    /\ IF StreamDown("enclave_stream")
       THEN /\ encl' = EnclaveMsg2Ends(encl, Panic("IoError"))
            /\ c2e' = c2e
       ELSE LET msg2 == Head(c2e).body
                priv == Unwrap(encl.key_exchange)
                chk == EnclaveCheckMsg2(priv, encl.sp_vkey, msg2)
                got == [encl EXCEPT !.msg2 = Some(msg2), !.key_exchange = None]
            IN  /\ c2e' = Tail(c2e)
                /\ encl' =
                     IF chk.kind # "Ok" THEN EnclaveMsg2Ends(got, chk)
                     ELSE [got EXCEPT !.pc = "ReadTargetInfo",
                               !.keys = chk.value,
                               !.verification_digest =
                                   Some(VerificationDigest(PublicKey(priv), msg2.g_b,
                                                           Unwrap(chk.value)[4]))]
    /\ UNCHANGED <<cfg, client, sp, e2c, c2s, s2c, closed, tampered, ias, aesm>>
    /\ Record

\* get_quote: the QE's target info is read, the REPORT written.
EnclaveReadTargetInfo ==
    /\ encl.pc = "ReadTargetInfo"
    /\ StreamDown("enclave_stream") \/ c2e # << >>
    /\ IF StreamDown("enclave_stream")
       THEN /\ encl' = EnclaveMsg2Ends(encl, Panic("IoError"))
            /\ UNCHANGED <<c2e, e2c>>
       ELSE /\ c2e' = Tail(c2e)
            /\ e2c' = Append(e2c, Msg("report",
                          ReportForTarget(cfg.enclave, Head(c2e).body,
                                          Unwrap(encl.verification_digest))))
            /\ encl' = [encl EXCEPT !.pc = "ReadQuote"]
    /\ UNCHANGED <<cfg, client, sp, c2s, s2c, closed, tampered, ias, aesm>>
    /\ Record

\* get_quote: the quote is read.
EnclaveReadQuote ==
    /\ encl.pc = "ReadQuote"
    /\ StreamDown("enclave_stream") \/ c2e # << >>
    /\ IF StreamDown("enclave_stream")
       THEN /\ encl' = EnclaveMsg2Ends(encl, Panic("IoError"))
            /\ c2e' = c2e
       ELSE /\ c2e' = Tail(c2e)
            /\ encl' = [encl EXCEPT !.pc = "ReadQeReport", !.quote = Some(Head(c2e).body)]
    /\ UNCHANGED <<cfg, client, sp, e2c, c2s, s2c, closed, tampered, ias, aesm>>
    /\ Record

\* get_quote: the QE report is read and verified; process_msg_2 then writes the
\* tag of MSG3 and returns (sk, mk).
EnclaveReadQeReport ==
    /\ encl.pc = "ReadQeReport"
    /\ StreamDown("enclave_stream") \/ c2e # << >>
    /\ IF StreamDown("enclave_stream")
       THEN /\ encl' = EnclaveMsg2Ends(encl, Panic("IoError"))
            /\ UNCHANGED <<c2e, e2c>>
       ELSE LET keys == Unwrap(encl.keys)
            IN  /\ c2e' = Tail(c2e)
                /\ IF ~verify_local_attest(Head(c2e).body)
                   THEN /\ encl' = EnclaveMsg2Ends(encl, Err("LocalAttestation"))
                        /\ e2c' = e2c
                   ELSE /\ e2c' = Append(e2c, Msg("mac",
                                     RaMsg3New(keys[1], None, Unwrap(encl.quote)).mac))
                        /\ encl' = [encl EXCEPT !.pc = "ReadMsg4",
                                        !.process_msg_2 = Ok(<<keys[2], keys[3]>>)]
    /\ UNCHANGED <<cfg, client, sp, c2s, s2c, closed, tampered, ias, aesm>>
    /\ Record

\* do_attestation: MSG4 is read and the verdict applied.
EnclaveReadMsg4 ==
    /\ encl.pc = "ReadMsg4"
    /\ StreamDown("enclave_stream") \/ c2e # << >>
    /\ IF StreamDown("enclave_stream")
       THEN /\ encl' = EnclaveEnds(encl, Panic("IoError"))
            /\ c2e' = c2e
       ELSE LET msg4 == Head(c2e).body
            IN  /\ c2e' = Tail(c2e)
                /\ encl' = EnclaveEnds([encl EXCEPT !.msg4 = Some(msg4)],
                                       EnclaveVerdict(msg4, Unwrap(encl.process_msg_2.value)))
    /\ UNCHANGED <<cfg, client, sp, e2c, c2s, s2c, closed, tampered, ias, aesm>>
    /\ Record

Enclave ==
    \/ EnclaveSendGa
    \/ EnclaveReadMsg2
    \/ EnclaveReadTargetInfo
    \/ EnclaveReadQuote
    \/ EnclaveReadQeReport
    \/ EnclaveReadMsg4

----------------------------------------------------------------------------
\* ClientRaContext::do_attestation, one action per blocking read.

ClientEnds(c, res) == [c EXCEPT !.pc = "Done", !.result = res]

\* Mutant of ClientSendMsg0: MSG1 is written along with MSG0, before g_a is read.
ClientSendMsg0_Pipelined ==
    /\ client.pc = "Start"
    /\ ~StreamDown("sp_stream")
    /\ client' = [client EXCEPT !.pc = "ReadGa"]
    /\ c2s' = c2s \o <<Msg("MSG0", [exgid |-> 0]),
                        Msg("MSG1", RaMsg1("gid", PublicKey(ClientPriv)))>>
    /\ UNCHANGED <<cfg, encl, sp, e2c, c2e, s2c, closed, tampered, ias, aesm>>
    /\ Record

\* MSG0 (exgid = 0) is written to the SP.
ClientSendMsg0 ==
    /\ client.pc = "Start"
    /\ IF StreamDown("sp_stream")
       THEN /\ client' = ClientEnds(client, Err("IoError"))
            /\ c2s' = c2s
       ELSE /\ client' = [client EXCEPT !.pc = "ReadGa"]
            /\ c2s' = Append(c2s, Msg("MSG0", [exgid |-> 0]))
    /\ UNCHANGED <<cfg, encl, sp, e2c, c2e, s2c, closed, tampered, ias, aesm>>
    /\ Record

\* get_msg_1: g_a is read from the Enclave; MSG1 is written to the SP.
ClientReadGa ==
    /\ client.pc = "ReadGa"
    /\ StreamDown("enclave_stream") \/ e2c # << >>
    /\ IF StreamDown("enclave_stream")
       THEN /\ client' = ClientEnds(client, Panic("IoError"))
            /\ UNCHANGED <<e2c, c2s, tampered>>
       ELSE LET g_a == Head(e2c).body
            IN  \E sent \in {g_a} \cup (IF CanTamper THEN SubstituteGas(g_a) ELSE {}) :
                  LET msg1 == RaMsg1("gid", sent)
                      got == [client EXCEPT !.g_a = Some(g_a), !.msg1 = Some(msg1)]
                  IN  /\ e2c' = Tail(e2c)
                      /\ IF StreamDown("sp_stream")
                         THEN /\ client' = ClientEnds(got, Err("IoError"))
                              /\ UNCHANGED <<c2s, tampered>>
                         ELSE /\ client' = [got EXCEPT !.pc = "ReadMsg2"]
                              /\ c2s' = Append(c2s, Msg("MSG1", msg1))
                              /\ tampered' = IF sent = g_a THEN tampered
                                             ELSE tampered \cup {"MSG1"}
    /\ UNCHANGED <<cfg, encl, sp, c2e, s2c, closed, ias, aesm>>
    /\ Record

\* MSG2 is read from the SP; process_msg_2 forwards it to the Enclave; get_quote
\* calls init_quote and writes the QE's target info to the Enclave.
ClientReadMsg2 ==
    /\ client.pc = "ReadMsg2"
    /\ StreamDown("sp_stream") \/ s2c # << >>
    /\ IF StreamDown("sp_stream")
       THEN /\ client' = ClientEnds(client, Err("IoError"))
            /\ UNCHANGED <<s2c, c2e, tampered, aesm>>
       ELSE LET msg2 == Head(s2c).body
                got == [client EXCEPT !.msg2 = Some(msg2)]
            IN  /\ s2c' = Tail(s2c)
                /\ IF StreamDown("enclave_stream")
                   THEN /\ client' = ClientEnds(got, Panic("IoError"))
                        /\ UNCHANGED <<c2e, tampered, aesm>>
                   ELSE \E sent \in {msg2} \cup
                                (IF CanTamper
                                 THEN SubstituteMsg2s(msg2, Unwrap(client.g_a)) ELSE {}),
                           init_ok \in AesmInitResponses :
                          /\ tampered' = IF sent = msg2 THEN tampered
                                         ELSE tampered \cup {"MSG2"}
                          /\ aesm' = Append(aesm, [call |-> "init_quote", ok |-> init_ok,
                                                   qe_report |-> ""])
                          /\ IF ~init_ok
                             THEN /\ client' = ClientEnds(got, Err("AesmError"))
                                  /\ c2e' = Append(c2e, Msg("MSG2", sent))
                             ELSE /\ client' = [got EXCEPT !.pc = "ReadReport"]
                                  /\ c2e' = c2e \o <<Msg("MSG2", sent),
                                                     Msg("target_info", "qe_target_info")>>
    /\ UNCHANGED <<cfg, encl, sp, e2c, c2s, closed, ias>>
    /\ Record

\* get_quote: the REPORT is read from the Enclave, AESM turns it into a quote, the
\* quote and the QE report are written to the Enclave. The Client may hand the
\* Enclave another quote it got from the QE.
ClientReadReport ==
    /\ client.pc = "ReadReport"
    /\ StreamDown("enclave_stream") \/ e2c # << >>
    /\ IF StreamDown("enclave_stream")
       THEN /\ client' = ClientEnds(client, Panic("IoError"))
            /\ UNCHANGED <<e2c, c2e, aesm, tampered>>
       ELSE LET report == Head(e2c).body
                msg2 == Unwrap(client.msg2)
            IN  \E resp \in AesmQuoteResponses :
                  /\ e2c' = Tail(e2c)
                  /\ aesm' = Append(aesm, [call |-> "get_quote", ok |-> resp.ok,
                                           qe_report |-> resp.qe_report])
                  /\ IF ~resp.ok
                     THEN /\ client' = ClientEnds(client, Err("AesmError"))
                          /\ c2e' = c2e
                          /\ tampered' = tampered
                     ELSE LET quote == QuoteOf(report, msg2.spid)
                          IN  \E sent \in {quote} \cup
                                     (IF CanTamper THEN SubstituteQuotes(quote) ELSE {}) :
                                /\ client' = [client EXCEPT !.pc = "ReadMac",
                                                            !.quote = Some(sent)]
                                /\ c2e' = c2e \o <<Msg("quote", sent),
                                                   Msg("qe_report", resp.qe_report)>>
                                /\ tampered' = IF sent = quote THEN tampered
                                               ELSE tampered \cup {"QUOTE"}
    /\ UNCHANGED <<cfg, encl, sp, c2s, s2c, closed, ias>>
    /\ Record

\* process_msg_2: the tag of MSG3 is read from the Enclave; MSG3 is written to the SP.
ClientReadMac ==
    /\ client.pc = "ReadMac"
    /\ StreamDown("enclave_stream") \/ e2c # << >>
    /\ IF StreamDown("enclave_stream")
       THEN /\ client' = ClientEnds(client, Panic("IoError"))
            /\ UNCHANGED <<e2c, c2s, tampered>>
       ELSE LET msg3 == RaMsg3(Head(e2c).body, Unwrap(client.quote))
            IN  \E sent \in {msg3} \cup
                       (IF CanTamper
                        THEN SubstituteMsg3s(msg3, Unwrap(client.msg2)) ELSE {}) :
                  LET got == [client EXCEPT !.msg3 = Some(msg3)]
                  IN  /\ e2c' = Tail(e2c)
                      /\ IF StreamDown("sp_stream")
                         THEN /\ client' = ClientEnds(got, Err("IoError"))
                              /\ UNCHANGED <<c2s, tampered>>
                         ELSE /\ client' = [got EXCEPT !.pc = "ReadMsg4"]
                              /\ c2s' = Append(c2s, Msg("MSG3", sent))
                              /\ tampered' = IF sent = msg3 THEN tampered
                                             ELSE tampered \cup {"MSG3"}
    /\ UNCHANGED <<cfg, encl, sp, c2e, s2c, closed, ias, aesm>>
    /\ Record

\* MSG4 is read from the SP and forwarded to the Enclave; then the verdict.
ClientReadMsg4 ==
    /\ client.pc = "ReadMsg4"
    /\ StreamDown("sp_stream") \/ s2c # << >>
    /\ IF StreamDown("sp_stream")
       THEN /\ client' = ClientEnds(client, Err("IoError"))
            /\ UNCHANGED <<s2c, c2e>>
       ELSE LET msg4 == Head(s2c).body
                got == [client EXCEPT !.msg4 = Some(msg4)]
            IN  /\ s2c' = Tail(s2c)
                /\ IF StreamDown("enclave_stream")
                   THEN /\ client' = ClientEnds(got, Panic("IoError"))
                        /\ c2e' = c2e
                   ELSE /\ client' = ClientEnds(got, ClientVerdict(msg4))
                        /\ c2e' = Append(c2e, Msg("MSG4", msg4))
    /\ UNCHANGED <<cfg, encl, sp, e2c, c2s, closed, tampered, ias, aesm>>
    /\ Record

Client ==
    \/ ClientSendMsg0
    \/ ClientReadGa
    \/ ClientReadMsg2
    \/ ClientReadReport
    \/ ClientReadMac
    \/ ClientReadMsg4

----------------------------------------------------------------------------
\* SpRaContext::do_attestation, one action per blocking read.

SpEnds(c, res) == [c EXCEPT !.pc = "Done", !.result = res]

\* MSG0 is read and ignored.
SpReadMsg0 ==
    /\ sp.pc = "ReadMsg0"
    /\ StreamDown("sp_stream") \/ c2s # << >>
    /\ IF StreamDown("sp_stream")
       THEN /\ sp' = SpEnds(sp, Err("IoError"))
            /\ c2s' = c2s
       ELSE /\ sp' = [sp EXCEPT !.pc = "ReadMsg1"]
            /\ c2s' = Tail(c2s)
    /\ UNCHANGED <<cfg, encl, client, e2c, c2e, s2c, closed, tampered, ias, aesm>>
    /\ Record

\* MSG1 is read, process_msg_1 run (the sig_rl future is awaited last, after the
\* local crypto), MSG2 written.
SpReadMsg1 ==
    /\ sp.pc = "ReadMsg1"
    /\ StreamDown("sp_stream") \/ c2s # << >>
    /\ IF StreamDown("sp_stream")
       THEN /\ sp' = SpEnds(sp, Err("IoError"))
            /\ UNCHANGED <<c2s, s2c, ias>>
       ELSE LET msg1 == Head(c2s).body
            IN  \E resp \in SigRlResponses :
                  LET out == process_msg_1(sp, cfg.sp, msg1, resp)
                      got == [out.ctx EXCEPT !.msg1 = Some(msg1)]
                  IN  /\ c2s' = Tail(c2s)
                      /\ ias' = IF out.res.kind = "Panic" THEN ias
                                ELSE Append(ias, [call |-> "get_sig_rl", resp |-> resp])
                      /\ IF out.res.kind # "Ok"
                         THEN /\ sp' = SpEnds(got, out.res)
                              /\ s2c' = s2c
                         ELSE /\ sp' = [got EXCEPT !.pc = "ReadMsg3",
                                                   !.msg2 = out.res.value]
                              /\ s2c' = Append(s2c, Msg("MSG2", Unwrap(out.res.value)))
    /\ UNCHANGED <<cfg, encl, client, e2c, c2e, closed, tampered, aesm>>
    /\ Record

\* MSG3 is read, process_msg_3 run (IAS is asked once checks 1 and 2 passed), MSG4
\* written, and the verdict applied.
SpReadMsg3 ==
    /\ sp.pc = "ReadMsg3"
    /\ StreamDown("sp_stream") \/ c2s # << >>
    /\ IF StreamDown("sp_stream")
       THEN /\ sp' = SpEnds(sp, Err("IoError"))
            /\ UNCHANGED <<c2s, s2c, ias>>
       ELSE LET msg3 == Head(c2s).body
                got == [sp EXCEPT !.msg3 = Some(msg3)]
            IN  \E resp \in IF Msg3IntegrityOk(sp, msg3) THEN IasResponsesFor(msg3.quote)
                            ELSE {IasFailure} :
                  LET res == process_msg_3(sp, cfg.sp, msg3, resp)
                  IN  /\ c2s' = Tail(c2s)
                      /\ ias' = IF Msg3IntegrityOk(sp, msg3)
                                THEN Append(ias, [call |-> "verify_attestation_evidence",
                                                  resp |-> resp])
                                ELSE ias
                      /\ IF res.kind # "Ok"
                         THEN /\ sp' = SpEnds(got, res)
                              /\ s2c' = s2c
                         ELSE LET msg4 == Unwrap(res.value).msg4
                                  verdict == SpVerdict(sp, msg4,
                                                       Unwrap(res.value).epid_pseudonym)
                              IN  /\ s2c' = Append(s2c, Msg("MSG4", msg4))
                                  /\ sp' = SpEnds(
                                       [got EXCEPT !.msg4 = Some(msg4),
                                                   !.sk_mk = IF verdict.kind = "Ok"
                                                             THEN None ELSE @],
                                       verdict)
    /\ UNCHANGED <<cfg, encl, client, e2c, c2e, closed, tampered, aesm>>
    /\ Record

Sp ==
    \/ SpReadMsg0
    \/ SpReadMsg1
    \/ SpReadMsg3

----------------------------------------------------------------------------
\* The environment: a stream is closed under the parties.

AllDone == encl.pc = "Done" /\ client.pc = "Done" /\ sp.pc = "Done"

CloseStream(s) ==
    /\ ~AllDone
    /\ s \notin closed
    /\ Cardinality(closed) < MaxClosed
    /\ closed' = closed \cup {s}
    /\ UNCHANGED <<cfg, encl, client, sp, e2c, c2e, c2s, s2c, tampered, ias, aesm, wire>>

Next ==
    \/ Enclave
    \/ Client
    \/ Sp
    \/ \E s \in {"enclave_stream", "sp_stream"} : CloseStream(s)

Spec == Init /\ [][Next]_vars

\* Each party is a running thread: a read that can complete does complete.
FairSpec == Spec /\ WF_vars(Enclave) /\ WF_vars(Client) /\ WF_vars(Sp)

----------------------------------------------------------------------------
\* What the claims speak of.

\* A positive verdict: the enclave is trusted and the PSE manifest is not distrusted.
Msg4Trusted(msg4) ==
    msg4.is_enclave_trusted /\ msg4.is_pse_manifest_trusted # Some(FALSE)

EnclaveOk == encl.result.kind = "Ok"

ClientOk == client.result.kind = "Ok"

SpOk == sp.result.kind = "Ok"

\* The (sk, mk) handed to the Enclave's caller and the result handed to the SP's.
EnclaveKeys == Unwrap(encl.result.value)

SpResult == Unwrap(sp.result.value)

\* IAS's answer to verify_attestation_evidence, once it gave one.
IasVerdicts == { i \in DOMAIN ias : ias[i].call = "verify_attestation_evidence" }

IasContacted == IasVerdicts # {}

IasVerdict == ias[CHOOSE i \in IasVerdicts : TRUE].resp

\* The streams stay open, and IAS and AESM have answered every call with success,
\* AESM with a QE report that verifies.
CollaboratorsSucceed ==
    /\ closed = {}
    /\ \A i \in DOMAIN ias : ias[i].resp.ok
    /\ \A i \in DOMAIN aesm :
         aesm[i].ok /\ (aesm[i].call = "get_quote" => verify_local_attest(aesm[i].qe_report))

\* A MSG4 is, or has been, on the way from the SP.
Msg4Written ==
    \/ \E i \in DOMAIN s2c : s2c[i].type = "MSG4"
    \/ IsSome(client.msg4)

----------------------------------------------------------------------------
\* C1. Key agreement: whenever the Enclave's do_attestation returned Ok((sk, mk))
\* and the SP's returned Ok(result), whatever the Client wrote in place of MSG1,
\* MSG2 and MSG3, both derived their keys from the same KDK, result.signing_key is
\* sk and result.master_key is mk.
C1_KeyAgreement ==
    (EnclaveOk /\ SpOk) =>
        /\ SpResult.signing_key = EnclaveKeys[1]
        /\ SpResult.master_key = EnclaveKeys[2]
        /\ EnclaveKeys[1] = Subkey(DeriveKdk(EnclavePriv, PublicKey(SpPriv)), "SK")
        /\ EnclaveKeys[2] = Subkey(DeriveKdk(SpPriv, PublicKey(EnclavePriv)), "MK")

\* Both sides have returned Ok.
C1_Witness == EnclaveOk /\ SpOk /\ SpResult.signing_key = EnclaveKeys[1]

----------------------------------------------------------------------------
\* C3. Success is gated on the MSG4 verdict in every role: the Client, the Enclave
\* and the SP return Ok only when the MSG4 the SP produced in this session has
\* is_enclave_trusted = true and is_pse_manifest_trusted is not Some(false); the
\* MSG4 the Client and the Enclave judged is that MSG4.
C3_SuccessGated ==
    /\ (ClientOk \/ EnclaveOk \/ SpOk) => (IsSome(sp.msg4) /\ Msg4Trusted(Unwrap(sp.msg4)))
    /\ IsSome(client.msg4) => client.msg4 = sp.msg4
    /\ IsSome(encl.msg4) => encl.msg4 = sp.msg4

\* The verdict is negative on the PSE manifest alone, and all three roles have ended.
C3_Witness ==
    /\ IsSome(sp.msg4) /\ IsSome(encl.msg4)
    /\ Unwrap(sp.msg4).is_enclave_trusted
    /\ Unwrap(sp.msg4).is_pse_manifest_trusted = Some(FALSE)
    /\ encl.result = Err("PseNotTrusted")
    /\ client.result = Err("PseNotTrusted")
    /\ sp.result = Err("EnclaveNotTrusted")

----------------------------------------------------------------------------
\* C5. Wrong enclave: when the MSG3 tag and the verification digest are valid and
\* IAS answered, but MRENCLAVE, MRSIGNER, ISVPRODID or ISVSVN of the quote differs
\* from the SIGSTRUCT, the SP ends with SigstructMismatched and no MSG4 is ever
\* written, whatever quote status IAS returned.
C5_Case ==
    /\ sp.pc = "Done" /\ IsSome(sp.msg3)
    /\ Msg3IntegrityOk(sp, Unwrap(sp.msg3))
    /\ IasContacted /\ IasVerdict.ok
    /\ \/ Unwrap(sp.msg3).quote.mrenclave # cfg.sp.sigstruct.mrenclave
       \/ Unwrap(sp.msg3).quote.mrsigner # cfg.sp.sigstruct.mrsigner
       \/ Unwrap(sp.msg3).quote.isvprodid # cfg.sp.sigstruct.isvprodid
       \/ Unwrap(sp.msg3).quote.isvsvn # cfg.sp.sigstruct.isvsvn

C5_WrongEnclaveRejected ==
    C5_Case => (sp.result = Err("SigstructMismatched") /\ sp.msg4 = None /\ ~Msg4Written)

\* The quote differs in ISVSVN only and IAS said OK.
C5_Witness ==
    /\ C5_Case
    /\ Unwrap(sp.msg3).quote.isvsvn # cfg.sp.sigstruct.isvsvn
    /\ IasVerdict.isv_enclave_quote_status = "OK"
    /\ sp.result = Err("SigstructMismatched")

----------------------------------------------------------------------------
\* C6. Transcript tamper, as claimed: when the Client put a g_a' that is not the
\* Enclave's g_a into MSG1 (and did nothing else; streams, IAS and AESM work), the
\* session proceeds: the Enclave, once it has read MSG2, computes its verification
\* digest, and the SP ends only by rejecting MSG3 with IntegrityError.
C6_Original ==
    (tampered = {"MSG1"} /\ ValidPoint(Unwrap(client.msg1).g_a) /\ CollaboratorsSucceed) =>
        /\ IsSome(encl.msg2) => IsSome(encl.verification_digest)
        /\ sp.pc = "Done" => sp.result = Err("IntegrityError")

\* C6, amended. When the Client put a g_a' that is not the Enclave's g_a into MSG1,
\* the session stops at the Enclave: the sign_gb_ga of the SP's MSG2 covers g_a', so
\* verify_and_derive fails (SignatureInvalid when MSG2 is relayed as sent) before
\* any verification digest is computed; the Client assembles no MSG3, the SP reads
\* none and never fails with IntegrityError. (A g_a' that is no point stops the SP
\* in process_msg_1.)
C6_TamperStopsAtEnclave ==
    "MSG1" \in tampered =>
        /\ IsSome(encl.msg2) =>
             /\ encl.process_msg_2.kind = "Panic"
             /\ encl.process_msg_2.err \in {"SignatureInvalid", "CryptoError"}
             /\ "MSG2" \notin tampered => encl.process_msg_2.err = "SignatureInvalid"
             /\ encl.verification_digest = None
             /\ encl.keys = None
        /\ client.msg3 = None
        /\ sp.msg3 = None
        /\ sp.result # Err("IntegrityError")
        /\ Unwrap(client.msg1).g_a = BadPoint => sp.pc \in {"ReadMsg0", "ReadMsg1", "Done"}

\* MSG1 carried the Client's own point, MSG2 was relayed as the SP sent it, and the
\* Enclave stopped in verify_and_derive while the SP waits for MSG3.
C6_Witness ==
    /\ tampered = {"MSG1"}
    /\ Unwrap(client.msg1).g_a = PublicKey(ClientPriv)
    /\ encl.process_msg_2 = Panic("SignatureInvalid")
    /\ sp.pc = "ReadMsg3"

----------------------------------------------------------------------------
\* The SP has run process_msg_3 on an authentic MSG3, IAS has answered, and the
\* quote is the one of the SIGSTRUCT's enclave.
SpPassedIdentityCheck ==
    /\ sp.pc = "Done" /\ IsSome(sp.msg3)
    /\ Msg3IntegrityOk(sp, Unwrap(sp.msg3))
    /\ IasContacted /\ IasVerdict.ok
    /\ SigstructMatches(Unwrap(sp.msg3).quote, cfg.sp.sigstruct)

\* C7. Debug enclave in release: in a release build, when the attributes of the
\* quote have the DEBUG bit set and the earlier checks of process_msg_3 passed, the
\* SP ends with EnclaveInDebugMode and produces no MSG4, whether or not the
\* SIGSTRUCT's flags have the DEBUG bit; in a debug build the check is skipped.
C7_DebugEnclaveRejected ==
    SpPassedIdentityCheck =>
        /\ (cfg.sp.release /\ Unwrap(sp.msg3).quote.debug) =>
             (sp.result = Err("EnclaveInDebugMode") /\ sp.msg4 = None)
        /\ ~cfg.sp.release => sp.result # Err("EnclaveInDebugMode")

----------------------------------------------------------------------------
\* C8. MSG3 authenticity: a MSG3 that reaches the SP with mac, ps_sec_prop or quote
\* different from the MSG3 the Client assembled from the Enclave's tag and AESM's
\* quote makes process_msg_3 fail with IntegrityError; IAS is not asked to verify
\* and no MSG4 is produced.
C8_Case == IsSome(sp.msg3) /\ sp.msg3 # client.msg3

C8_Msg3Authentic ==
    C8_Case =>
        /\ sp.result = Err("IntegrityError")
        /\ ~IasContacted
        /\ sp.msg4 = None /\ ~Msg4Written

\* The SP has rejected a MSG3 in which only ps_sec_prop was changed.
C8_Witness ==
    /\ C8_Case
    /\ Unwrap(sp.msg3).mac = Unwrap(client.msg3).mac
    /\ Unwrap(sp.msg3).quote = Unwrap(client.msg3).quote
    /\ sp.result = Err("IntegrityError")

----------------------------------------------------------------------------
\* The Enclave has read a MSG2 that is not the one the SP sent.
EnclaveGotOtherMsg2 == IsSome(encl.msg2) /\ encl.msg2 # sp.msg2

\* C9. MSG2 authenticity, as claimed: for every MSG2 that reaches the Enclave with
\* a field different from what the SP sent (MSG1 and MSG3 being relayed as they
\* are), process_msg_2 fails with IntegrityError.
C9_Original ==
    (EnclaveGotOtherMsg2 /\ tampered = {"MSG2"}) => encl.process_msg_2 = Err("IntegrityError")

\* C9, amended. A MSG2 that reaches the Enclave different from what the SP sent is
\* always rejected: when g_b or sign_gb_ga differs, verify_and_derive fails first
\* (SignatureInvalid, or CryptoError for bytes that are no point) and the MAC is
\* never checked (so too when MSG1 did not carry the Enclave's g_a, which the
\* signature covers); when g_b and sign_gb_ga are as sent and MSG1 carried the
\* Enclave's g_a, a difference in spid, quote_type, kdf_id, mac or sig_rl makes
\* process_msg_2 fail with IntegrityError. In no case is a verification digest
\* computed.
C9_Msg2Authentic ==
    EnclaveGotOtherMsg2 =>
        LET got == Unwrap(encl.msg2)
            sent == Unwrap(sp.msg2)
        IN  /\ encl.verification_digest = None
            /\ encl.pc = "Done"
            /\ IF got.g_b # sent.g_b \/ got.sign_gb_ga # sent.sign_gb_ga
               THEN /\ encl.process_msg_2.kind = "Panic"
                    /\ encl.process_msg_2.err \in {"SignatureInvalid", "CryptoError"}
               ELSE IF "MSG1" \in tampered
               THEN encl.process_msg_2 = Panic("SignatureInvalid")
               ELSE encl.process_msg_2 = Err("IntegrityError")

\* The Enclave has rejected with IntegrityError a MSG2 in which only sig_rl differs.
C9_Witness ==
    /\ EnclaveGotOtherMsg2
    /\ Unwrap(encl.msg2) = [Unwrap(sp.msg2) EXCEPT !.sig_rl = Some("sig_rl_other")]
    /\ encl.process_msg_2 = Err("IntegrityError")

----------------------------------------------------------------------------
\* C10. Replay rejection, as claimed: the MSG2 of another session, delivered to
\* this Enclave (MSG1 and MSG3 being relayed as they are), is rejected with
\* IntegrityError.
C10_Original ==
    (encl.msg2 = Some(OldMsg2) /\ tampered = {"MSG2"}) =>
        encl.process_msg_2 = Err("IntegrityError")

\* C10, amended. The MSG2 of another session, delivered to this Enclave, is
\* rejected by verify_and_derive with SignatureInvalid: its sign_gb_ga covers the
\* other session's g_a. No key is derived and the MAC check is not reached.
C10_ReplayRejected ==
    encl.msg2 = Some(OldMsg2) =>
        /\ encl.process_msg_2 = Panic("SignatureInvalid")
        /\ encl.keys = None /\ encl.verification_digest = None
        /\ encl.pc = "Done" /\ ~EnclaveOk

\* The Enclave has read the replayed MSG2 and stopped.
C10_Witness ==
    /\ encl.msg2 = Some(OldMsg2)
    /\ encl.msg2 # sp.msg2
    /\ encl.key_exchange = None
    /\ encl.pc = "Done"

----------------------------------------------------------------------------
\* The conditions of the happy path: the streams stay open, the Client relays every
\* message as it is, AESM and IAS succeed, the QE report verifies, the enclave that
\* runs is the SIGSTRUCT's, and IAS's verdict, once given, is "OK" with no PSE
\* manifest status.
C2_Conditions ==
    /\ CollaboratorsSucceed
    /\ tampered = {}
    /\ SigstructMatches(cfg.enclave, cfg.sp.sigstruct)
    /\ IasContacted =>
         /\ IasVerdict.isv_enclave_quote_status = "OK"
         /\ IasVerdict.pse_manifest_status = None

\* All three do_attestation calls have returned with success, the SP's result holds
\* the Enclave's SK and MK, and the MSG4 is {true, None}.
C2_Outcome ==
    /\ client.result = Ok("unit")
    /\ EnclaveOk /\ SpOk
    /\ SpResult.signing_key = EnclaveKeys[1]
    /\ SpResult.master_key = EnclaveKeys[2]
    /\ sp.msg4 = Some(RaMsg4(TRUE, None))
    /\ encl.msg4 = sp.msg4

\* C2. Happy path completes without deadlock: under the conditions of the happy
\* path the three do_attestation procedures, each a running thread, all eventually
\* return with success (a behaviour leaves the happy path, or reaches the outcome).
C2_HappyPathCompletes == <>(~C2_Conditions \/ C2_Outcome)

\* The same with the debug-mode check of process_msg_3 passing: a debug build, or
\* a SIGSTRUCT whose attribute flags have no DEBUG bit.
C2_CompletesPastDebugCheck ==
    <>(~C2_Conditions \/ (cfg.sp.release /\ cfg.sp.sigstruct.debug) \/ C2_Outcome)

----------------------------------------------------------------------------
\* The conditions of S6: streams, Client, AESM and IAS as on the happy path, checks
\* 1 to 5 of process_msg_3 pass, and the quote status IAS returns is neither "OK"
\* nor listed in quote_trust_options.
C4_Conditions ==
    /\ CollaboratorsSucceed
    /\ tampered = {}
    /\ SigstructMatches(cfg.enclave, cfg.sp.sigstruct)
    /\ ~(cfg.sp.release /\ cfg.sp.sigstruct.debug)
    /\ IasContacted =>
         /\ IasVerdict.isv_enclave_quote_status # "OK"
         /\ \A i \in DOMAIN cfg.sp.quote_trust_options :
              cfg.sp.quote_trust_options[i] # IasVerdict.isv_enclave_quote_status

\* The SP wrote a MSG4 with is_enclave_trusted = false, the Client forwarded it to
\* the Enclave, and both ended with EnclaveNotTrusted.
C4_Outcome ==
    /\ IsSome(sp.msg4) /\ ~Unwrap(sp.msg4).is_enclave_trusted
    /\ client.msg4 = sp.msg4 /\ encl.msg4 = sp.msg4
    /\ client.result = Err("EnclaveNotTrusted")
    /\ encl.result = Err("EnclaveNotTrusted")

\* C4. Negative verdict is propagated: under the conditions of S6 the SP writes a
\* MSG4 with is_enclave_trusted = false, the Client forwards it, and the Client and
\* the Enclave both eventually end with EnclaveNotTrusted.
C4_NegativeVerdictPropagated == <>(~C4_Conditions \/ C4_Outcome)

\* The same when the PSE trust decision does not unwrap an absent
\* pse_trust_options.
C4_PropagatedUnlessPsePanics ==
    <>(~C4_Conditions
       \/ (IasContacted /\ PseDecisionPanics(cfg.sp, IasVerdict.pse_manifest_status))
       \/ C4_Outcome)

----------------------------------------------------------------------------
\* The Enclave has read a MSG2 whose g_b is a point and whose sign_gb_ga is not
\* the signature of sp_vkey over g_b || g_a, g_a being the Enclave's own key.
C11_Case ==
    /\ IsSome(encl.msg2)
    /\ ValidPoint(Unwrap(encl.msg2).g_b)
    /\ ~EcdsaVerify(Unwrap(encl.msg2).sign_gb_ga, encl.sp_vkey,
                    Unwrap(encl.msg2).g_b, PublicKey(EnclavePriv))

\* C11. Signature authenticity: when the sign_gb_ga of the MSG2 the Enclave read is
\* not a valid signature under sp_vkey over g_b || g_a, the Enclave's
\* do_attestation returns the error SignatureInvalid to its caller, and no KDK or
\* subkey is derived.
C11_SignatureAuthentic ==
    C11_Case =>
        /\ encl.result = Err("SignatureInvalid")
        /\ encl.keys = None /\ encl.verification_digest = None

\* What does hold in that case: verify_and_derive fails with SignatureInvalid, the
\* unwrap aborts the Enclave, and nothing is derived or written.
C11_SignatureFailureAborts ==
    C11_Case =>
        /\ encl.process_msg_2 = Panic("SignatureInvalid")
        /\ encl.result = Panic("SignatureInvalid")
        /\ encl.keys = None /\ encl.verification_digest = None
        /\ Len(wire.e2c) = 1

----------------------------------------------------------------------------
\* process_msg_3 returned Ok: the SP holds the MSG4 it produced.
SpAcceptedMsg3 == IsSome(sp.msg3) /\ IsSome(sp.msg4)

\* SHA-256(g_a || g_b || vk) for the g_a of the MSG1 the SP read, the SP's own g_b
\* and the VK of the KDK the SP derived from them.
SpTranscriptDigest ==
    LET g_a == Unwrap(sp.msg1).g_a
    IN  [g_a |-> g_a, g_b |-> PublicKey(SpPriv),
         vk |-> Subkey(DeriveKdk(SpPriv, g_a), "VK")]

\* C12. Transcript binding: whenever the SP accepts MSG3, bytes [368..400) of the
\* quote in that MSG3 are SHA-256(g_a || g_b || vk) for the g_a received in MSG1,
\* the SP's g_b and the VK the SP derived; and when the Enclave too has computed a
\* digest (so in every session where it succeeds), it is that same digest, the one
\* it put in its REPORT.
C12_TranscriptBinding ==
    SpAcceptedMsg3 =>
        /\ Unwrap(sp.msg3).quote.report_data = SpTranscriptDigest
        /\ encl.verification_digest = Some(SpTranscriptDigest)
        /\ wire.e2c[2].body.report_data = SpTranscriptDigest

\* The SP accepted an authentic MSG3 and the Enclave succeeded.
C12_Witness == SpAcceptedMsg3 /\ EnclaveOk /\ SpOk /\ tampered = {}

\* The Enclave put its tag on the quote of an earlier session, and the SP rejected
\* that MSG3 at the digest check.
C12_StaleQuoteRejected ==
    /\ IsSome(sp.msg3)
    /\ Msg3VerifyMac(Unwrap(sp.msg3), Unwrap(sp.smk))
    /\ Unwrap(sp.msg3).quote.report_data = OldDigest
    /\ sp.result = Err("IntegrityError")

----------------------------------------------------------------------------
\* The kinds of the messages written so far in one direction of a stream.
Types(log) == [i \in DOMAIN log |-> log[i].type]

IsPrefix(s, t) == Len(s) <= Len(t) /\ s = SubSeq(t, 1, Len(s))

\* C13. Message ordering within one session: on sp_stream MSG0, MSG1, MSG2, MSG3,
\* MSG4 are written in this order, each at most once and never pipelined (MSG2 only
\* after the SP read MSG1, MSG3 only after the Client read MSG2, MSG4 only after the
\* SP read MSG3); the Client writes MSG1 only after it read g_a from the Enclave;
\* and the four steps of the QE interaction on enclave_stream (target_info, report,
\* quote, qe_report) happen after the Client received MSG2 and before it writes MSG3.
C13_MessageOrdering ==
    /\ IsPrefix(Types(wire.c2s), <<"MSG0", "MSG1", "MSG3">>)
    /\ IsPrefix(Types(wire.s2c), <<"MSG2", "MSG4">>)
    /\ IsPrefix(Types(wire.e2c), <<"g_a", "report", "mac">>)
    /\ IsPrefix(Types(wire.c2e), <<"MSG2", "target_info", "quote", "qe_report", "MSG4">>)
    /\ Len(wire.c2s) >= 2 => (Len(wire.e2c) >= 1 /\ IsSome(client.g_a))
    /\ Len(wire.s2c) >= 1 => (Len(wire.c2s) >= 2 /\ IsSome(sp.msg1))
    /\ Len(wire.c2s) >= 3 => (Len(wire.s2c) >= 1 /\ IsSome(client.msg2))
    /\ Len(wire.s2c) >= 2 => (Len(wire.c2s) >= 3 /\ IsSome(sp.msg3))
    /\ Len(wire.c2e) >= 2 => IsSome(client.msg2)
    /\ Len(wire.e2c) >= 2 => (Len(wire.c2e) >= 2 /\ IsSome(client.msg2))
    /\ Len(wire.c2e) >= 3 => Len(wire.e2c) >= 2
    /\ Len(wire.c2s) >= 3 =>
         /\ Len(wire.c2e) >= 4 /\ Len(wire.e2c) >= 3
         /\ encl.pc \in {"ReadMsg4", "Done"}
    /\ Len(wire.c2e) >= 5 => (Len(wire.s2c) >= 2 /\ IsSome(client.msg4))

\* A whole session: every message of both streams has been written.
C13_Witness ==
    /\ Types(wire.c2s) = <<"MSG0", "MSG1", "MSG3">>
    /\ Types(wire.s2c) = <<"MSG2", "MSG4">>
    /\ Types(wire.e2c) = <<"g_a", "report", "mac">>
    /\ Types(wire.c2e) = <<"MSG2", "target_info", "quote", "qe_report", "MSG4">>
    /\ AllDone

----------------------------------------------------------------------------
\* The MSG1 a further call of process_msg_1 may be given.
Msg1Inputs ==
    { RaMsg1("gid", g_a) :
        g_a \in {PublicKey(EnclavePriv), PublicKey(ClientPriv), PublicKey(OldEnclavePriv)} }

\* The keypairs are gone once used: the Enclave's from the moment it has read MSG2,
\* the SP's from the moment it has read MSG1; and a further call of process_msg_2
\* or process_msg_1 on the context stops at the unwrap of the keypair, leaving the
\* context as it was.
C14_KeypairGone ==
    /\ IsSome(encl.msg2) =>
         /\ encl.key_exchange = None
         /\ EnclaveGetPublicKey(encl) = Panic("NoneUnwrap")
    /\ IsSome(encl.keys) => IsSome(encl.msg2)
    /\ IsSome(sp.msg1) =>
         /\ sp.key_exchange = None
         /\ \A msg1 \in Msg1Inputs, resp \in SigRlResponses :
              process_msg_1(sp, cfg.sp, msg1, resp) = [res |-> Panic("NoneUnwrap"), ctx |-> sp]
    /\ IsSome(sp.smk) => IsSome(sp.msg1)

\* No step brings a keypair back or replaces derived keys by others.
C14_Step ==
    /\ encl.key_exchange = None => encl'.key_exchange = None
    /\ sp.key_exchange = None => sp'.key_exchange = None
    /\ IsSome(encl.keys) => encl'.keys = encl.keys
    /\ IsSome(sp.smk) => sp'.smk = sp.smk

\* C14. One-shot ephemeral keypair: in EnclaveRaContext and in SpRaContext the
\* ephemeral keypair serves at most one key derivation; once process_msg_2 or
\* process_msg_1 has derived a KDK, key_exchange is None in every later state and
\* no further call on the context derives a second KDK from it.
C14_OneShotKeypair == [](C14_KeypairGone) /\ [][C14_Step]_vars

\* Both parties have derived their keys and hold no keypair.
C14_Witness ==
    /\ IsSome(encl.keys) /\ encl.key_exchange = None
    /\ IsSome(sp.smk) /\ sp.key_exchange = None

----------------------------------------------------------------------------
\* C15. Every failure is surfaced as a returned error: in each of the three roles a
\* failure during do_attestation (a closed stream, a malformed message, a signature
\* failure or MAC mismatch on MSG2, a failed QE report check) makes do_attestation
\* return an error value to its caller; no role ends by a panic or abort.
C15_FailuresReturned ==
    /\ encl.result.kind \in {"Running", "Ok", "Err"}
    /\ client.result.kind \in {"Running", "Ok", "Err"}
    /\ sp.result.kind \in {"Running", "Ok", "Err"}

\* What does hold: the only errors the Enclave's do_attestation returns are the two
\* verdicts on MSG4 (every other failure of the Enclave is an unwrap), and the
\* Client returns the failures of sp_stream and of AESM.
C15_WhatIsReturned ==
    /\ encl.result.kind = "Err" => encl.result.err \in {"EnclaveNotTrusted", "PseNotTrusted"}
    /\ encl.process_msg_2.kind \in {"Err", "Panic"} => encl.result.kind = "Panic"
    /\ client.result.kind = "Err" =>
         client.result.err \in {"IoError", "AesmError", "EnclaveNotTrusted", "PseNotTrusted"}
    /\ client.result.kind = "Panic" => "enclave_stream" \in closed
    /\ sp.result.kind = "Panic" => sp.result.err \in {"CryptoError", "NoneUnwrap"}

----------------------------------------------------------------------------
\* The shapes of the values of the symbolic cryptography: a key is a KDK (a set)
\* or a subkey of one; none of the shapes below is a key or holds one in the clear.
IsPoint(x) == DOMAIN x = {"pub"}

IsSignature(x) == DOMAIN x = {"signer", "g_b", "g_a"}

IsMacTag(x) == DOMAIN x = {"key", "data"}

IsDigest(x) == DOMAIN x = {"g_a", "g_b", "vk"}

IsKey(x) == DOMAIN x = {"label", "kdk"}

IsQuote(q) ==
    /\ DOMAIN q = {"mrenclave", "mrsigner", "isvprodid", "isvsvn", "debug",
                   "report_data", "spid", "epid_signed"}
    /\ IsDigest(q.report_data)

\* A message on a stream carries, field by field, only public values, MAC tags and
\* digests.
NoKeyInClear(m) ==
    CASE m.type = "g_a" -> IsPoint(m.body)
      [] m.type = "report" ->
           /\ DOMAIN m.body = {"identity", "target", "report_data"}
           /\ IsDigest(m.body.report_data)
           /\ DOMAIN m.body.identity =
                {"mrenclave", "mrsigner", "isvprodid", "isvsvn", "debug"}
           /\ m.body.target = "qe_target_info"
      [] m.type = "mac" -> IsMacTag(m.body)
      [] m.type = "MSG0" -> m.body = [exgid |-> 0]
      [] m.type = "MSG1" -> m.body.gid = "gid" /\ IsPoint(m.body.g_a)
      [] m.type = "MSG2" ->
           /\ DOMAIN m.body = {"g_b", "spid", "quote_type", "kdf_id", "sign_gb_ga",
                               "mac", "sig_rl"}
           /\ IsPoint(m.body.g_b) /\ IsSignature(m.body.sign_gb_ga)
           /\ IsMacTag(m.body.mac)
           /\ m.body.spid \in {"spid", "spid_other"}
           /\ m.body.quote_type \in {0, 1} /\ m.body.kdf_id \in {1, 2}
           /\ m.body.sig_rl \in {None, Some("sig_rl"), Some("sig_rl_other")}
      [] m.type = "target_info" -> m.body = "qe_target_info"
      [] m.type = "quote" -> IsQuote(m.body)
      [] m.type = "qe_report" -> m.body \in {"qe_report", "qe_report_forged"}
      [] m.type = "MSG3" ->
           /\ DOMAIN m.body = {"mac", "ps_sec_prop", "quote"}
           /\ IsMacTag(m.body.mac) /\ IsQuote(m.body.quote)
           /\ m.body.ps_sec_prop \in {None, Some("ps_sec_prop")}
      [] m.type = "MSG4" ->
           /\ DOMAIN m.body = {"is_enclave_trusted", "is_pse_manifest_trusted", "pib"}
           /\ m.body.is_enclave_trusted \in BOOLEAN
           /\ m.body.is_pse_manifest_trusted \in {None, Some(TRUE), Some(FALSE)}
           /\ m.body.pib = None

\* The tags the Enclave and the SP put on the wire are computed under an SMK.
TagUnderSmk(tag) == IsKey(tag.key) /\ tag.key.label = "SMK"

\* C16. Secrets never on the wire: no value written to enclave_stream or sp_stream
\* is or contains KDK, SMK, SK, MK or VK in the clear; the only key-dependent
\* values written are the MAC tags of MSG2 and MSG3, computed under SMK, and the
\* digest SHA-256(g_a || g_b || vk) in the REPORT and the quote. So nothing the
\* Client reads gives it one of these keys.
C16_SecretsNeverOnWire ==
    /\ \A d \in {"e2c", "c2e", "c2s", "s2c"} :
         \A i \in DOMAIN wire[d] : NoKeyInClear(wire[d][i])
    /\ \A i \in DOMAIN wire.e2c :
         wire.e2c[i].type = "mac" => TagUnderSmk(wire.e2c[i].body)
    /\ \A i \in DOMAIN wire.s2c :
         wire.s2c[i].type = "MSG2" => TagUnderSmk(wire.s2c[i].body.mac)

\* A whole session has gone over the wire, the tags of MSG2 and MSG3 included.
C16_Witness ==
    /\ Len(wire.e2c) = 3 /\ Len(wire.c2e) = 5 /\ Len(wire.c2s) = 3 /\ Len(wire.s2c) = 2
    /\ IsSome(encl.keys) /\ IsSome(sp.sk_mk)
    /\ wire.e2c[3].body.key = Unwrap(sp.smk)

----------------------------------------------------------------------------
\* x is an element of the list seq.
Member(seq, x) == \E i \in DOMAIN seq : seq[i] = x

\* C17. Enclave trust decision: for every quote status of IAS and every
\* quote_trust_options list, in whatever order the config gives it, the MSG4 that
\* process_msg_3 produces has is_enclave_trusted = true exactly when the status is
\* "OK" or a member of the list; so a "GROUP_OUT_OF_DATE" status that is listed
\* yields a successful attestation (the PSE verdict not being negative).
C17_EnclaveTrustDecision ==
    SpAcceptedMsg3 =>
        LET status == IasVerdict.isv_enclave_quote_status
            msg4 == Unwrap(sp.msg4)
        IN  /\ msg4.is_enclave_trusted =
                 (status = "OK" \/ Member(cfg.given.quote_trust_options, status))
            /\ (/\ status = "GROUP_OUT_OF_DATE"
                /\ Member(cfg.given.quote_trust_options, status)
                /\ msg4.is_pse_manifest_trusted # Some(FALSE)) => SpOk

\* IAS answered with the status the config lists second, out of order, and the SP
\* trusted the enclave.
C17_Witness ==
    /\ SpAcceptedMsg3 /\ SpOk
    /\ cfg.given.quote_trust_options = <<"GROUP_OUT_OF_DATE", "CONFIGURATION_NEEDED">>
    /\ IasVerdict.isv_enclave_quote_status = "CONFIGURATION_NEEDED"

----------------------------------------------------------------------------
\* process_msg_3 has run on the MSG3 the SP read.
SpRanMsg3 == sp.pc = "Done" /\ IsSome(sp.msg3)

\* The checks of process_msg_3 on that MSG3, each taken by itself.
Check1_Mac == Msg3VerifyMac(Unwrap(sp.msg3), Unwrap(sp.smk))

Check2_Digest == Unwrap(sp.msg3).quote.report_data = Unwrap(sp.verification_digest)

Check3_Ias == IasContacted /\ IasVerdict.ok

Check4_Identity == SigstructMatches(Unwrap(sp.msg3).quote, cfg.sp.sigstruct)

Check5_Debug == ~DebugModeRejected(cfg.sp, Unwrap(sp.msg3).quote)

\* C18. process_msg_3 applies its checks in a fixed order and fails fast: (1) MSG3
\* MAC, (2) quote[368..400) = vd, (3) IAS verify_attestation_evidence, (4) SIGSTRUCT
\* identity, (5) debug flag, (6) trust decision. The error is that of the first
\* check that fails in this order, IAS is contacted only when checks 1 and 2
\* passed, and a MSG4 is produced only when checks 1 to 5 all passed.
C18_ChecksInOrder ==
    /\ SpRanMsg3 =>
         /\ ~(Check1_Mac /\ Check2_Digest) =>
              (sp.result = Err("IntegrityError") /\ ~IasContacted)
         /\ (Check1_Mac /\ Check2_Digest) => IasContacted
         /\ (Check1_Mac /\ Check2_Digest /\ ~Check3_Ias) => sp.result = Err("IasError")
         /\ (Check1_Mac /\ Check2_Digest /\ Check3_Ias /\ ~Check4_Identity) =>
              sp.result = Err("SigstructMismatched")
         /\ (Check1_Mac /\ Check2_Digest /\ Check3_Ias /\ Check4_Identity /\ ~Check5_Debug) =>
              sp.result = Err("EnclaveInDebugMode")
    /\ IasContacted => (SpRanMsg3 /\ Check1_Mac /\ Check2_Digest)
    /\ (IsSome(sp.msg4) \/ Len(wire.s2c) >= 2) =>
         /\ SpRanMsg3
         /\ Check1_Mac /\ Check2_Digest /\ Check3_Ias /\ Check4_Identity /\ Check5_Debug

\* Checks 3, 4 and 5 would all fail; the SP ended with the error of check 3.
C18_Witness ==
    /\ SpRanMsg3 /\ Check1_Mac /\ Check2_Digest
    /\ ~Check3_Ias /\ ~Check4_Identity /\ ~Check5_Debug
    /\ sp.result = Err("IasError")

\* Checks 2 and 4 would both fail; the SP ended with the error of check 2 and IAS
\* was not asked.
C18_DigestBeforeIdentity ==
    /\ SpRanMsg3 /\ Check1_Mac /\ ~Check2_Digest /\ ~Check4_Identity
    /\ sp.result = Err("IntegrityError") /\ ~IasContacted

----------------------------------------------------------------------------
\* process_msg_3 ran and its checks 1 to 5 passed.
SpReachedTrustDecision ==
    /\ SpRanMsg3
    /\ Check1_Mac /\ Check2_Digest /\ Check3_Ias /\ Check4_Identity /\ Check5_Debug

\* The PSE verdict the spec defines: None when IAS gave no pse_manifest_status,
\* else Some(status = "OK" or status is listed in pse_trust_options).
ExpectedPseVerdict ==
    LET status == IasVerdict.pse_manifest_status
        given == cfg.given.pse_trust_options
    IN  IF status = None THEN None
        ELSE Some(Unwrap(status) = "OK"
                  \/ (IsSome(given) /\ Member(Unwrap(given), Unwrap(status))))

\* C19. PSE trust decision: for every IAS response and every configuration, one
\* without pse_trust_options included, process_msg_3 (its earlier checks passing)
\* returns a MSG4 whose is_pse_manifest_trusted is None when IAS gave no
\* pse_manifest_status and else Some(status = "OK" or status in pse_trust_options);
\* it never fails or aborts in this decision.
C19_PseTrustDecision ==
    SpReachedTrustDecision =>
        /\ sp.result.kind # "Panic"
        /\ IsSome(sp.msg4)
        /\ Unwrap(sp.msg4).is_pse_manifest_trusted = ExpectedPseVerdict

\* What does hold: the decision is as specified whenever it does not have to
\* consult an absent pse_trust_options, and aborts when it has to.
C19_PseDecisionUnlessAbsent ==
    SpReachedTrustDecision =>
        IF PseDecisionPanics(cfg.sp, IasVerdict.pse_manifest_status)
        THEN sp.result = Panic("NoneUnwrap") /\ sp.msg4 = None /\ Len(wire.s2c) = 1
        ELSE /\ IsSome(sp.msg4)
             /\ Unwrap(sp.msg4).is_pse_manifest_trusted = ExpectedPseVerdict

----------------------------------------------------------------------------
\* C20. SP session-state lifecycle: the session state {SMK, (SK, MK),
\* verification_digest} of an SpRaContext is None before process_msg_1, is created
\* by process_msg_1, and is consumed by process_msg_3: once process_msg_3 has
\* returned, the context holds none of the three.
C20_SessionStateLifecycle ==
    /\ sp.msg1 = None =>
         (sp.smk = None /\ sp.sk_mk = None /\ sp.verification_digest = None)
    /\ sp.pc = "ReadMsg3" =>
         (IsSome(sp.smk) /\ IsSome(sp.sk_mk) /\ IsSome(sp.verification_digest))
    /\ SpRanMsg3 =>
         (sp.smk = None /\ sp.sk_mk = None /\ sp.verification_digest = None)

\* What does hold: process_msg_3 reads SMK and the digest in place and leaves
\* them; (SK, MK) is taken by do_attestation, and only for a positive verdict.
C20_SessionStateKept ==
    /\ sp.msg1 = None =>
         (sp.smk = None /\ sp.sk_mk = None /\ sp.verification_digest = None)
    /\ sp.pc = "ReadMsg3" =>
         (IsSome(sp.smk) /\ IsSome(sp.sk_mk) /\ IsSome(sp.verification_digest))
    /\ SpRanMsg3 =>
         /\ IsSome(sp.smk) /\ IsSome(sp.verification_digest)
         /\ sp.sk_mk = None <=> SpOk

----------------------------------------------------------------------------
\* The two checks of process_msg_2 on the MSG2 the Enclave read, each taken by
\* itself: sign_gb_ga is the signature of sp_vkey over g_b || the Enclave's own
\* g_a, and the tag is the CMAC under the SMK of the KDK of (a, g_b).
Msg2SignatureOk ==
    /\ ValidPoint(Unwrap(encl.msg2).g_b)
    /\ EcdsaVerify(Unwrap(encl.msg2).sign_gb_ga, encl.sp_vkey,
                   Unwrap(encl.msg2).g_b, PublicKey(EnclavePriv))

Msg2MacOk ==
    Msg2VerifyMac(Unwrap(encl.msg2),
                  Subkey(DeriveKdk(EnclavePriv, Unwrap(encl.msg2).g_b), "SMK"))

\* C21. The Enclave authenticates MSG2 before it attests anything: it writes a
\* REPORT or a MSG3 tag to the Client only after both the signature sign_gb_ga and
\* the MAC of the MSG2 it read have verified; when either check fails, the Enclave
\* has written nothing to the stream but its g_a.
C21_Msg2BeforeAttesting ==
    /\ Len(wire.e2c) >= 2 =>
         (IsSome(encl.msg2) /\ Msg2SignatureOk /\ Msg2MacOk)
    /\ (IsSome(encl.msg2) /\ ~(Msg2SignatureOk /\ Msg2MacOk)) =>
         /\ Types(wire.e2c) = <<"g_a">>
         /\ encl.pc = "Done" /\ encl.result.kind = "Panic"
         /\ encl.verification_digest = None

\* The Enclave has written its REPORT and its tag after a MSG2 that verified.
C21_Witness ==
    /\ Types(wire.e2c) = <<"g_a", "report", "mac">>
    /\ IsSome(encl.msg2) /\ Msg2SignatureOk /\ Msg2MacOk

\* The signature verified and the tag did not: the Enclave stopped having written
\* its g_a only.
C21_MacFailureSilent ==
    /\ IsSome(encl.msg2) /\ Msg2SignatureOk /\ ~Msg2MacOk
    /\ Types(wire.e2c) = <<"g_a">> /\ encl.pc = "Done"

====
